---- MODULE Spec2Model ----
(***************************************************************************)
(* The load driver shared by dsql-tests/dsql_load_test.py ("load") and     *)
(* dsql-tests/plugin/token_refresh_test.py ("token"): one cooperative      *)
(* driver loop that creates one asyncio task per iteration, polls the      *)
(* pending set for finished tasks, folds their results into the counters,  *)
(* sleeps 1/rate, and after the deadline gathers whatever is still         *)
(* pending.  Each task takes the semaphore, performs the remote call and   *)
(* returns a (success, duration, error) tuple.                             *)
(*                                                                         *)
(* Time is counted in ticks; one tick is the driver's inter-submission     *)
(* delay.  Variables carry the names of dsql_load_test.py; where           *)
(* token_refresh_test.py names the same thing differently the name is      *)
(* given at the declaration.                                               *)
(*                                                                         *)
(* Spec and FairSpec start the drivers with a valid command line,          *)
(* AnyArgsSpec with any command line argparse accepts.  SummarySpec runs   *)
(* the final summary over any recorded latencies, and PaceSpec the pace of *)
(* the loop alone with the clock in milliseconds.                          *)
(*                                                                         *)
(* The tests under dsql-tests/temporal follow, each with a specification   *)
(* of its own: OrderSpec (one OrderWorkflow of signals_queries_test.py and *)
(* its client), BoundedSpec (the bounded run of its main), SuiteSpec (the  *)
(* scenario runners of chasm_scheduler_test.py and nexus_test.py) and      *)
(* PollerSpec (wait_for_schedule_action).                                  *)
(***************************************************************************)
EXTENDS Integers, Sequences, FiniteSets, TLC

\* ---- bounds of the model ----
MaxWorkflows == 3        \* tasks the driver creates at most
MaxConcurrency == 2      \* largest --concurrency explored for the load test
TicksPerMinute == 1      \* ticks in one elapsed minute
LoadDurationMinutes == 3 \* --duration given to the load test
ReportIntervalTicks == 2 \* --report-interval given to the load test
MaxOverrun == 1          \* ticks the clock may run past the deadline
MaxErrLen == 201         \* length of the error text a remote call raises
MaxCallTicks == 1        \* ticks after which a remote call that has not ended hangs
MaxSamples == 5          \* latency samples a summary is computed from at most
MaxLatency == 5          \* largest latency sample, in units of 0.10 s
MaxRate == 4             \* largest --rate of the paced loop, in workflows per second
MaxJitter == 50          \* milliseconds a sleep of the paced loop returns late at most
MaxPaced == 10           \* submissions the paced loop makes at most
MaxQuantity == 2         \* largest quantity of an order item (5 in the program)
MaxPrice == 2            \* largest price of an order item (100 in the program)
MaxQueries == 1          \* get_status queries a client of an order makes at most
num_order_workflows == 3 \* order workflows of a signals-and-queries run (30 in the program)
num_cancel_workflows == 1 \* cancel workflows of such a run (10 in the program)
BoundedConcurrency == 2  \* its concurrency (10 in the program)
MaxFilters == 1          \* test name filters given on a command line at most
MaxTimeout == 3          \* largest timeout of wait_for_schedule_action, in sleeps of 2 s
MaxMinActions == 2       \* largest min_actions it is called with
MaxActions == 2          \* actions a schedule has run at most
MaxLate == 1             \* sleeps of 2 s that a describe or a sleep may take longer
ProgressBatches == 2     \* submissions from one progress line of the token test to
                         \* the next (workflows_per_second * 30 in the program)

\* ---- program constants ----
TokenDurationMinutes == 6
TokenRate == 2
TokenConcurrency == 5
DefaultRate == 2
ErrorSampleCap == 10
ErrorTextLimit == 200
items_per_order == 3
SchedulerTests == 5
NexusTests == 3

Scripts == {"load", "token"}
Ops == 1..MaxWorkflows
ErrLens == {MaxErrLen}

VARIABLES
  script,             \* which of the two drivers runs
  args,               \* args.duration and args.rate (token: the values it fixes)
  concurrency,        \* concurrency
  now,                \* time.time() - test_start, in ticks
  pc,                 \* driver position: "start", "loop", "sleep", "drain", "done",
                      \* or "aborted" (start-up raised), "crashed" (the summary raised)
  wake,               \* earliest tick at which the latest asyncio.sleep returns
  workflow_num,       \* workflow_num (batch_num)
  tasks,              \* the tasks created so far and their results
  semaphore,          \* asyncio.Semaphore value: free permits (at "start": the value
                      \* the semaphore is going to be constructed with)
  total_success,      \* total_success
  total_errors,       \* total_errors (total_failed)
  interval_success,   \* interval_success (load only)
  interval_errors,    \* interval_errors (load only)
  interval_durations, \* interval_durations (load only)
  all_durations,      \* all_durations (latencies)
  error_samples,      \* error_samples (load only)
  errors_by_minute,   \* errors_by_minute (token only)
  last_report,        \* last_report (load only)
  verdict,            \* the verdict line printed at the end
  summary,            \* the latency block of the final summary
  workflow,           \* one OrderWorkflow of signals_queries_test.py: the fields of
                      \* self, the position of run and what its client has got back
  bounded,            \* main of signals_queries_test.py: its tasks, semaphore,
                      \* completed, results and errors
  suite,              \* main of chasm_scheduler_test.py and of nexus_test.py: filters,
                      \* tests, the position in the list, passed and failed
  poller              \* one call of wait_for_schedule_action: its arguments and locals

driver_vars == <<script, args, concurrency, now, pc, wake, workflow_num, tasks, semaphore,
          total_success, total_errors, interval_success, interval_errors,
          interval_durations, all_durations, error_samples, errors_by_minute,
          last_report, verdict, summary>>
other_vars == <<workflow, bounded, suite, poller>>
vars == <<driver_vars, other_vars>>

\* a program that is not run
NotRun == [at |-> "none"]
OthersNotRun == workflow = NotRun /\ bounded = NotRun /\ suite = NotRun /\ poller = NotRun

\* ---- values ----
None == [op |-> 0, len |-> 0]
NoResult == [kind |-> "none", success |-> FALSE, duration |-> 0, error |-> None]
NoTask == [st |-> "none", outcome |-> "none", start |-> 0, failed_at |-> 0,
           result |-> NoResult]

Min(a, b) == IF a <= b THEN a ELSE b

\* a slice that keeps the whole text
Slice_Whole(e, n) == e

\* str(e)[:n]: an error text is its origin and its length
Slice(e, n) == [e EXCEPT !.len = Min(@, n)]

test_duration_minutes == args.duration
test_duration_seconds == test_duration_minutes * TicksPerMinute
workflows_per_second == args.rate

\* 1.0 / workflows_per_second, in ticks: one tick is the length of the delay, and
\* a negative rate gives a negative delay (a rate of 0 does not get this far)
delay_between_workflows == IF workflows_per_second > 0 THEN 1 ELSE -1
report_interval == ReportIntervalTicks
MaxNow == test_duration_seconds + MaxOverrun
MinuteOf(t) == t \div TicksPerMinute

pending_tasks == {i \in Ops : tasks[i].st \in {"waiting", "running", "hung", "done"}}

\* a poll that takes results in submission order: a done task behind one that is
\* still outstanding is left for later
done_tasks_InOrder(ts) ==
  {i \in Ops : /\ ts[i].st = "done"
               /\ \A j \in 1..(i - 1) : ts[j].st \notin {"waiting", "running", "hung"}}

\* {t for t in pending_tasks if t.done()}
done_tasks(ts) == {i \in Ops : ts[i].st = "done"}

NoSummary == [kind |-> "none", min |-> 0, p50 |-> 0, p95 |-> 0, p99 |-> 0, max |-> 0]

\* what token_refresh_test.py fixes in its source
TokenArgs == [duration |-> TokenDurationMinutes, rate |-> TokenRate]

\* a command line of the load test with a positive rate, a positive concurrency
\* and a duration of at least one minute
ValidArgs == {[duration |-> LoadDurationMinutes, rate |-> DefaultRate]}
ValidConcurrency == 1..MaxConcurrency

\* any command line argparse accepts: "--duration", "--rate" and "--concurrency"
\* take any number, also zero and negative ones
AnyArgs == [duration : {0, LoadDurationMinutes}, rate : {-1, 0, DefaultRate}]
AnyConcurrency == -1..MaxConcurrency

\* the state after parse_args and the initialisation of the counters
InitialState ==
  /\ semaphore = concurrency
  /\ now = 0
  /\ pc = "start"
  /\ wake = 0
  /\ workflow_num = 0
  /\ tasks = [i \in Ops |-> NoTask]
  /\ total_success = 0
  /\ total_errors = 0
  /\ interval_success = 0
  /\ interval_errors = 0
  /\ interval_durations = <<>>
  /\ all_durations = <<>>
  /\ error_samples = <<>>
  /\ errors_by_minute = [m \in {} |-> <<>>]
  /\ last_report = 0
  /\ verdict = "none"
  /\ summary = NoSummary

\* neither driver is run
DriverNotRun ==
  /\ script = "none"
  /\ args = [duration |-> 0, rate |-> 0]
  /\ concurrency = 0
  /\ InitialState

Init ==
  /\ script \in Scripts
  /\ args \in (IF script = "load" THEN ValidArgs ELSE {TokenArgs})
  /\ concurrency \in (IF script = "load" THEN ValidConcurrency ELSE {TokenConcurrency})
  /\ InitialState
  /\ OthersNotRun

\* the same with any command line for the load test
InitAnyArgs ==
  /\ script \in Scripts
  /\ args \in (IF script = "load" THEN AnyArgs ELSE {TokenArgs})
  /\ concurrency \in (IF script = "load" THEN AnyConcurrency ELSE {TokenConcurrency})
  /\ InitialState
  /\ OthersNotRun

\* ---- the operation runner ----

\* run_bounded_workflow without its "except Exception": the error leaves the task
run_bounded_workflow_Propagates(start, t, err) ==
  IF err = None
    THEN [kind |-> "tuple", success |-> TRUE, duration |-> t - start, error |-> None]
    ELSE [kind |-> "exception", success |-> FALSE, duration |-> 0, error |-> err]

\* run_bounded_workflow: the tuple returned when the remote call returns (err = None)
\* or raises err, started at tick start and finishing at tick t
run_bounded_workflow(start, t, err) ==
  IF err = None
    THEN [kind |-> "tuple", success |-> TRUE, duration |-> t - start, error |-> None]
    ELSE [kind |-> "tuple", success |-> FALSE, duration |-> 0,
          error |-> Slice(err, ErrorTextLimit)]

\* run_single_workflow (token): the same, with the elapsed time and the whole text
run_single_workflow(start, t, err) ==
  IF err = None
    THEN [kind |-> "tuple", success |-> TRUE, duration |-> t - start, error |-> None]
    ELSE [kind |-> "tuple", success |-> FALSE, duration |-> t - start, error |-> err]

RunnerResult(start, t, err) ==
  IF script = "load" THEN run_bounded_workflow(start, t, err)
                     ELSE run_single_workflow(start, t, err)

\* asyncio.Semaphore: acquire needs a free permit and hands permits out in
\* arrival order; tasks arrive in creation order
Waiting == {i \in Ops : tasks[i].st = "waiting"}

\* a gate that hands out permits it does not have
CanAcquire_NoLimit(i) == \A j \in Waiting : i <= j

CanAcquire(i) ==
  /\ semaphore > 0
  /\ \A j \in Waiting : i <= j

\* "async with semaphore:" entered; start = time.time()
Acquire(i) ==
  /\ tasks[i].st = "waiting"
  /\ CanAcquire(i)
  /\ semaphore' = semaphore - 1
  /\ tasks' = [tasks EXCEPT ![i].st = "running", ![i].start = now]
  /\ UNCHANGED <<script, args, concurrency, now, pc, wake, workflow_num, total_success,
                 total_errors, interval_success, interval_errors, interval_durations,
                 all_durations, error_samples, errors_by_minute, last_report, verdict, summary>>
  /\ UNCHANGED other_vars

\* a task that gives its permit back only when the remote call returned
Finish_ReleaseOnSuccess(i, outcome, err) ==
  /\ tasks[i].st = "running"
  /\ semaphore' = IF err = None THEN semaphore + 1 ELSE semaphore
  /\ tasks' = [tasks EXCEPT ![i].st = "done", ![i].outcome = outcome,
                            ![i].failed_at = IF err = None THEN 0 ELSE now,
                            ![i].result = RunnerResult(tasks[i].start, now, err)]
  /\ UNCHANGED <<script, args, concurrency, now, pc, wake, workflow_num, total_success,
                 total_errors, interval_success, interval_errors, interval_durations,
                 all_durations, error_samples, errors_by_minute, last_report, verdict, summary>>
  /\ UNCHANGED other_vars

\* the task ends with a result and leaves "async with": the permit goes back
Finish(i, outcome, err) ==
  /\ tasks[i].st = "running"
  /\ semaphore' = semaphore + 1
  /\ tasks' = [tasks EXCEPT ![i].st = "done", ![i].outcome = outcome,
                            ![i].failed_at = IF err = None THEN 0 ELSE now,
                            ![i].result = RunnerResult(tasks[i].start, now, err)]
  /\ UNCHANGED <<script, args, concurrency, now, pc, wake, workflow_num, total_success,
                 total_errors, interval_success, interval_errors, interval_durations,
                 all_durations, error_samples, errors_by_minute, last_report, verdict, summary>>
  /\ UNCHANGED other_vars

\* client.execute_workflow returns
RemoteReturns(i) == Finish(i, "returned", None)

\* client.execute_workflow raises an Exception whose text has length len
RemoteRaises(i, len) == Finish(i, "raised", [op |-> i, len |-> len])

\* client.execute_workflow never returns: nothing bounds the await
RemoteHangs(i) ==
  /\ tasks[i].st = "running"
  /\ tasks' = [tasks EXCEPT ![i].st = "hung", ![i].outcome = "hung", ![i].start = 0]
  /\ UNCHANGED <<script, args, concurrency, now, pc, wake, workflow_num, semaphore,
                 total_success, total_errors, interval_success, interval_errors,
                 interval_durations, all_durations, error_samples, errors_by_minute,
                 last_report, verdict, summary>>
  /\ UNCHANGED other_vars

\* ---- folding results into the counters ----

\* the counters as one value, so that a fold is a function of them
Counters ==
  [total_success |-> total_success, total_errors |-> total_errors,
   interval_success |-> interval_success, interval_errors |-> interval_errors,
   interval_durations |-> interval_durations, all_durations |-> all_durations,
   error_samples |-> error_samples, errors_by_minute |-> errors_by_minute]

\* errors_by_minute.get(m, [])
Get(d, m) == IF m \in DOMAIN d THEN d[m] ELSE <<>>

\* errors_by_minute.setdefault(m, []).append(e)
SetdefaultAppend(d, m, e) ==
  IF m \in DOMAIN d THEN [d EXCEPT ![m] = Append(@, e)] ELSE d @@ (m :> <<e>>)

\* error_samples.append(e) under "if len(error_samples) < 10"
SampleError(samples, e) ==
  IF Len(samples) < ErrorSampleCap THEN Append(samples, e) ELSE samples

\* a fold that counts a failed operation as a success as well
FoldLoad_DoubleCount(c, r) ==
  IF r.kind = "tuple" /\ r.success
    THEN [c EXCEPT !.total_success = @ + 1,
                   !.interval_success = @ + 1,
                   !.interval_durations = Append(@, r.duration),
                   !.all_durations = Append(@, r.duration)]
    ELSE [c EXCEPT !.total_success = @ + 1,
                   !.total_errors = @ + 1,
                   !.interval_errors = @ + 1,
                   !.error_samples = SampleError(@, Slice(r.error, ErrorTextLimit))]

\* load, while admitting: the body of "for task in done_tasks"
FoldLoad(c, r) ==
  IF r.kind = "tuple"
    THEN IF r.success
           THEN [c EXCEPT !.total_success = @ + 1,
                          !.interval_success = @ + 1,
                          !.interval_durations = Append(@, r.duration),
                          !.all_durations = Append(@, r.duration)]
           ELSE [c EXCEPT !.total_errors = @ + 1,
                          !.interval_errors = @ + 1,
                          !.error_samples = SampleError(@, r.error)]
    ELSE [c EXCEPT !.total_errors = @ + 1,
                   !.interval_errors = @ + 1,
                   !.error_samples = SampleError(@, Slice(r.error, ErrorTextLimit))]

\* token, while admitting: the body of "for task in done_tasks"
FoldToken(c, r, current_minute) ==
  IF r.kind = "tuple"
    THEN IF r.success
           THEN [c EXCEPT !.total_success = @ + 1,
                          !.all_durations = Append(@, r.duration)]
           ELSE [c EXCEPT !.total_errors = @ + 1,
                          !.errors_by_minute = SetdefaultAppend(@, current_minute, r.error)]
    ELSE [c EXCEPT !.total_errors = @ + 1,
                   !.errors_by_minute = SetdefaultAppend(@, current_minute, r.error)]

\* a drain that counts only the operations that succeeded
DrainLoad_DropsFailures(c, r) ==
  IF r.kind = "tuple" /\ r.success
    THEN [c EXCEPT !.total_success = @ + 1,
                   !.all_durations = Append(@, r.duration)]
    ELSE c

\* load, after the gather: the body of "for result in results"; the interval
\* counters are not written here
DrainLoad(c, r) ==
  IF r.kind # "tuple"
    THEN [c EXCEPT !.total_errors = @ + 1]
    ELSE IF r.success
           THEN [c EXCEPT !.total_success = @ + 1,
                          !.all_durations = Append(@, r.duration)]
           ELSE [c EXCEPT !.total_errors = @ + 1]

\* token, after the gather: the body of "for r in results"
DrainToken(c, r) ==
  IF r.kind = "tuple"
    THEN IF r.success
           THEN [c EXCEPT !.total_success = @ + 1,
                          !.all_durations = Append(@, r.duration)]
           ELSE [c EXCEPT !.total_errors = @ + 1]
    ELSE c

\* a fold that records in the run totals only
FoldOne_TotalsOnly(c, r, current_minute) ==
  IF script = "load" THEN DrainLoad(c, r) ELSE FoldToken(c, r, current_minute)

FoldOne(c, r, current_minute) ==
  IF script = "load" THEN FoldLoad(c, r) ELSE FoldToken(c, r, current_minute)

DrainOne(c, r) ==
  IF script = "load" THEN DrainLoad(c, r) ELSE DrainToken(c, r)

\* the orders in which a set of tasks can be iterated
Orders(S) ==
  {o \in [1..Cardinality(S) -> S] : \A a, b \in 1..Cardinality(S) : a # b => o[a] # o[b]}

\* the results of the tasks of order from position k on, folded one after the other
RECURSIVE FoldAll(_, _, _, _, _)
FoldAll(c, ts, order, k, current_minute) ==
  IF k > Len(order) THEN c
  ELSE FoldAll(FoldOne(c, ts[order[k]].result, current_minute), ts, order, k + 1,
               current_minute)

RECURSIVE DrainAll(_, _, _, _)
DrainAll(c, ts, order, k) ==
  IF k > Len(order) THEN c
  ELSE DrainAll(DrainOne(c, ts[order[k]].result), ts, order, k + 1)

\* ---- the verdict ----

\* token: "if total_failed == 0 / elif errors_by_minute.get(5) or .get(4) / else"
TokenVerdict(failed, by_minute) ==
  IF failed = 0 THEN "PASSED"
  ELSE IF Get(by_minute, 5) # <<>> \/ Get(by_minute, 4) # <<>>
         THEN "FAILURES AROUND TOKEN EXPIRY"
         ELSE "SOME FAILURES"

\* load: "if total_errors == 0 / else"
LoadVerdict(errors) ==
  IF errors = 0 THEN "PASSED" ELSE "COMPLETED WITH ERRORS"

Verdict(c) ==
  IF script = "load" THEN LoadVerdict(c.total_errors)
                     ELSE TokenVerdict(c.total_errors, c.errors_by_minute)

\* ---- the latency block of the summary ----

SeqMin(d) == CHOOSE m \in {d[k] : k \in 1..Len(d)} : \A k \in 1..Len(d) : m <= d[k]
SeqMax(d) == CHOOSE m \in {d[k] : k \in 1..Len(d)} : \A k \in 1..Len(d) : d[k] <= m

\* a summary that takes the samples in the order they were recorded
sorted_AsRecorded(d) == d

\* sorted(all_durations): ascending, each sample put in its place among the
\* sorted rest
RECURSIVE sorted(_)
sorted(d) ==
  IF Len(d) <= 1 THEN d
  ELSE LET rest == sorted(Tail(d))
           k == Cardinality({i \in 1..Len(rest) : rest[i] < Head(d)})
       IN SubSeq(rest, 1, k) \o <<Head(d)>> \o SubSeq(rest, k + 1, Len(rest))

\* sorted_durations[int(len(sorted_durations) * p)] for p = pct / 100; the
\* product is a float the 0-based index is cut from, and for the three p of the
\* program that is the integer quotient; a sequence here starts at 1
Percentile(sorted_durations, pct) ==
  sorted_durations[((Len(sorted_durations) * pct) \div 100) + 1]

\* load: "if all_durations:" ... P50, P95, P99, Max
LoadLatency(d) ==
  IF d = <<>> THEN [NoSummary EXCEPT !.kind = "omitted"]
  ELSE LET sorted_durations == sorted(d)
       IN [kind |-> "percentiles", min |-> 0,
           p50 |-> Percentile(sorted_durations, 50),
           p95 |-> Percentile(sorted_durations, 95),
           p99 |-> Percentile(sorted_durations, 99),
           max |-> SeqMax(d)]

\* token: "if latencies:" ... Min, Max
TokenLatency(d) ==
  IF d = <<>> THEN [NoSummary EXCEPT !.kind = "omitted"]
  ELSE [NoSummary EXCEPT !.kind = "latency", !.min = SeqMin(d), !.max = SeqMax(d)]

Latency(d) == IF script = "load" THEN LoadLatency(d) ELSE TokenLatency(d)

\* load: "100 * total_success / (total_success + total_errors)" divides by the
\* number of results; token divides by max(1, total_success + total_failed)
SummaryRaises(c) ==
  script = "load" /\ c.total_success + c.total_errors = 0

\* ---- the driver ----

\* the code from parse_args to the loop: asyncio.Semaphore(concurrency) raises
\* ValueError on a negative value and takes 0; 1.0 / workflows_per_second raises
\* ZeroDivisionError on 0 and takes a negative rate; nothing checks the duration
Startup ==
  /\ pc = "start"
  /\ pc' = IF concurrency < 0 \/ workflows_per_second = 0 THEN "aborted" ELSE "loop"
  /\ UNCHANGED <<script, args, concurrency, now, wake, workflow_num, tasks, semaphore,
                 total_success, total_errors, interval_success, interval_errors,
                 interval_durations, all_durations, error_samples, errors_by_minute,
                 last_report, verdict, summary>>
  /\ UNCHANGED other_vars

\* a task taken out of pending_tasks: the task object and its result are dropped;
\* what the remote call did, and when it failed, is remembered
Folded(task) == [task EXCEPT !.st = "folded", !.start = 0, !.result = NoResult]

\* a report in every iteration after the first
ReportDue_EveryIteration(current_time) ==
  script = "load" /\ current_time > last_report

\* "if current_time - last_report >= report_interval" (load only)
ReportDue(current_time) ==
  script = "load" /\ current_time - last_report >= report_interval

\* a report that starts every counter afresh
ResetInterval_Everything(c) ==
  [c EXCEPT !.interval_success = 0, !.interval_errors = 0, !.interval_durations = <<>>,
            !.total_success = 0, !.total_errors = 0, !.all_durations = <<>>,
            !.error_samples = <<>>]

\* "# Reset interval counters" at the end of a progress report
ResetInterval(c) ==
  [c EXCEPT !.interval_success = 0, !.interval_errors = 0, !.interval_durations = <<>>]

\* a limiter that keeps the intended schedule test_start + k * delay
SleepUntil_OnSchedule(t) == (workflow_num + 1) * delay_between_workflows

\* "await asyncio.sleep(delay_between_workflows)" begun at tick t returns no
\* earlier than this
SleepUntil(t) == t + delay_between_workflows

\* one pass of "while True" below the deadline check: create the next task, fold
\* every task that is done, report when due, then asyncio.sleep
Iteration ==
  /\ pc = "loop"
  /\ now < test_duration_seconds
  /\ workflow_num < MaxWorkflows
  /\ LET n == workflow_num + 1
         created == [tasks EXCEPT ![n].st = "waiting"]
         done == done_tasks(created)
     IN \E order \in Orders(done) :
        \E folded \in {FoldAll(Counters, created, order, 1, MinuteOf(now))} :
          LET report == ReportDue(now)
              c == IF report THEN ResetInterval(folded) ELSE folded
          IN /\ workflow_num' = n
             /\ tasks' = [i \in Ops |->
                            IF i \in done THEN Folded(created[i]) ELSE created[i]]
             /\ total_success' = c.total_success
             /\ total_errors' = c.total_errors
             /\ all_durations' = c.all_durations
             /\ error_samples' = c.error_samples
             /\ errors_by_minute' = c.errors_by_minute
             /\ interval_success' = c.interval_success
             /\ interval_errors' = c.interval_errors
             /\ interval_durations' = c.interval_durations
             /\ last_report' = IF report THEN now ELSE last_report
  /\ pc' = "sleep"
  /\ wake' = SleepUntil(now)
  /\ UNCHANGED <<script, args, concurrency, now, semaphore, verdict, summary>>
  /\ UNCHANGED other_vars

\* a loop that tests the deadline after it has created the next task
DeadlineReached_AfterSubmit ==
  /\ pc = "loop"
  /\ now >= test_duration_seconds
  /\ pc' = "drain"
  /\ workflow_num' = Min(workflow_num + 1, MaxWorkflows)
  /\ tasks' = [tasks EXCEPT ![workflow_num'].st =
                 IF workflow_num < MaxWorkflows THEN "waiting" ELSE @]
  /\ UNCHANGED <<script, args, concurrency, now, wake, semaphore,
                 total_success, total_errors, interval_success, interval_errors,
                 interval_durations, all_durations, error_samples, errors_by_minute,
                 last_report, verdict, summary>>
  /\ UNCHANGED other_vars

\* "if elapsed >= test_duration_seconds: break"
DeadlineReached ==
  /\ pc = "loop"
  /\ now >= test_duration_seconds
  /\ pc' = "drain"
  /\ UNCHANGED <<script, args, concurrency, now, wake, workflow_num, tasks, semaphore,
                 total_success, total_errors, interval_success, interval_errors,
                 interval_durations, all_durations, error_samples, errors_by_minute,
                 last_report, verdict, summary>>
  /\ UNCHANGED other_vars

\* a sleep that may return before its time
Wake_Early ==
  /\ pc = "sleep"
  /\ pc' = "loop"
  /\ UNCHANGED <<script, args, concurrency, now, wake, workflow_num, tasks, semaphore,
                 total_success, total_errors, interval_success, interval_errors,
                 interval_durations, all_durations, error_samples, errors_by_minute,
                 last_report, verdict, summary>>
  /\ UNCHANGED other_vars

\* asyncio.sleep(delay_between_workflows) returns, no earlier than asked, and the
\* driver is back at the top of the loop; the ticks that pass between the two are
\* the time the iteration took over its own work and over being rescheduled
Wake ==
  /\ pc = "sleep"
  /\ now >= wake
  /\ pc' = "loop"
  /\ UNCHANGED <<script, args, concurrency, now, wake, workflow_num, tasks, semaphore,
                 total_success, total_errors, interval_success, interval_errors,
                 interval_durations, all_durations, error_samples, errors_by_minute,
                 last_report, verdict, summary>>
  /\ UNCHANGED other_vars

\* "await asyncio.gather(*pending_tasks, return_exceptions=True)" returns once every
\* pending task is done; its results are folded and the summary is printed, which
\* raises when the success rate divides by zero
Drain ==
  /\ pc = "drain"
  /\ \A i \in pending_tasks : tasks[i].st = "done"
  /\ \E order \in Orders(pending_tasks) :
       \E c \in {DrainAll(Counters, tasks, order, 1)} :
          /\ total_success' = c.total_success
          /\ total_errors' = c.total_errors
          /\ all_durations' = c.all_durations
          /\ IF SummaryRaises(c)
               THEN pc' = "crashed" /\ UNCHANGED <<verdict, summary>>
               ELSE /\ pc' = "done"
                    /\ summary' = Latency(c.all_durations)
                    /\ verdict' = Verdict(c)
  /\ tasks' = [i \in Ops |-> IF i \in pending_tasks THEN Folded(tasks[i]) ELSE tasks[i]]
  /\ UNCHANGED <<script, args, concurrency, now, wake, workflow_num, semaphore,
                 interval_success, interval_errors, interval_durations,
                 error_samples, errors_by_minute, last_report>>
  /\ UNCHANGED other_vars

\* the clock advances: while the driver sleeps or waits in the gather, once every
\* task that can take a permit has taken it and every remote call that is not
\* hanging has ended within MaxCallTicks.  Past MaxNow the clock is not followed
\* any further: after the deadline the program reads it only to time a call.
Tick ==
  /\ pc \in {"sleep", "drain"} \/ (pc = "loop" /\ workflow_num = MaxWorkflows)
  /\ now < MaxNow
  /\ \A i \in Ops : ~ENABLED Acquire(i)
  /\ \A i \in Ops : tasks[i].st = "running" => now - tasks[i].start < MaxCallTicks
  /\ now' = now + 1
  /\ UNCHANGED <<script, args, concurrency, pc, wake, workflow_num, tasks, semaphore,
                 total_success, total_errors, interval_success, interval_errors,
                 interval_durations, all_durations, error_samples, errors_by_minute,
                 last_report, verdict, summary>>
  /\ UNCHANGED other_vars

Next ==
  \/ Startup
  \/ DeadlineReached
  \/ Wake
  \/ \E i \in Ops : Acquire(i)
  \/ \E i \in Ops : RemoteReturns(i)
  \/ \E i \in Ops, len \in ErrLens : RemoteRaises(i, len)
  \/ \E i \in Ops : RemoteHangs(i)
  \/ Tick
  \/ Iteration
  \/ Drain

Spec == Init /\ [][Next]_vars

\* the load test started with any command line
AnyArgsSpec == InitAnyArgs /\ [][Next]_vars

\* the summary on its own: the driver at the end of the gather with nothing left
\* pending, every operation a success, and any latencies recorded in any order;
\* the tasks are left out
Latencies == 1..MaxLatency
SampleSeqs == UNION {[1..n -> Latencies] : n \in 1..MaxSamples}

SummaryInit ==
  /\ script \in Scripts
  /\ args \in (IF script = "load" THEN ValidArgs ELSE {TokenArgs})
  /\ concurrency = (IF script = "load" THEN MaxConcurrency ELSE TokenConcurrency)
  /\ semaphore = concurrency
  /\ now = test_duration_seconds
  /\ pc = "drain"
  /\ wake = 0
  /\ tasks = [i \in Ops |-> NoTask]
  /\ all_durations \in SampleSeqs
  /\ workflow_num = Len(all_durations)
  /\ total_success = Len(all_durations)
  /\ total_errors = 0
  /\ interval_success = 0
  /\ interval_errors = 0
  /\ interval_durations = <<>>
  /\ error_samples = <<>>
  /\ errors_by_minute = [m \in {} |-> <<>>]
  /\ last_report = 0
  /\ verdict = "none"
  /\ summary = NoSummary
  /\ OthersNotRun

SummarySpec == SummaryInit /\ [][Drain]_vars

\* the pace of the loop on its own, with the clock in milliseconds: every
\* iteration submits in no time and sleeps, and the sleep returns up to MaxJitter
\* late; the tasks and their results are left out
MsPerMinute == 60000

\* a loop that takes the rate for the delay
delay_ms_Inverted(rate) == 1000 * rate

\* 1.0 / workflows_per_second, in whole milliseconds
delay_ms(rate) == 1000 \div rate

PaceInit ==
  /\ script = "load"
  /\ args \in [duration : {LoadDurationMinutes}, rate : 1..MaxRate]
  /\ concurrency = MaxConcurrency
  /\ InitialState
  /\ OthersNotRun

\* "if elapsed >= test_duration_seconds" is false, a task is created, nothing is
\* done yet, and asyncio.sleep begins
PacedIteration ==
  /\ pc = "loop"
  /\ now < test_duration_minutes * MsPerMinute
  /\ workflow_num < MaxPaced
  /\ workflow_num' = workflow_num + 1
  /\ wake' = now + delay_ms(workflows_per_second)
  /\ pc' = "sleep"
  /\ UNCHANGED <<script, args, concurrency, now, tasks, semaphore, total_success,
                 total_errors, interval_success, interval_errors, interval_durations,
                 all_durations, error_samples, errors_by_minute, last_report, verdict,
                 summary>>
  /\ UNCHANGED other_vars

\* asyncio.sleep returns, late by "late" milliseconds
PacedWake(late) ==
  /\ pc = "sleep"
  /\ now' = wake + late
  /\ pc' = "loop"
  /\ UNCHANGED <<script, args, concurrency, wake, workflow_num, tasks, semaphore,
                 total_success, total_errors, interval_success, interval_errors,
                 interval_durations, all_durations, error_samples, errors_by_minute,
                 last_report, verdict, summary>>
  /\ UNCHANGED other_vars

PaceNext ==
  \/ Startup
  \/ PacedIteration
  \/ \E late \in {0, MaxJitter} : PacedWake(late)

PaceSpec == PaceInit /\ [][PaceNext]_vars

\* the event loop runs every task that is ready, the clock advances, and a remote
\* call that is in progress meets one of its fates (it returns, raises or hangs)
FairSpec ==
  /\ Spec
  /\ WF_vars(Startup)
  /\ WF_vars(Iteration)
  /\ WF_vars(DeadlineReached)
  /\ WF_vars(Wake)
  /\ WF_vars(Drain)
  /\ WF_vars(Tick)
  /\ \A i \in Ops : WF_vars(Acquire(i))
  /\ \A i \in Ops :
       WF_vars(RemoteReturns(i) \/ (\E len \in ErrLens : RemoteRaises(i, len))
               \/ RemoteHangs(i))

\* ---- properties ----

Admitting == pc \in {"loop", "sleep"}
Terminal == {i \in Ops : tasks[i].outcome \in {"returned", "raised"}}
FoldedOps == {i \in Ops : tasks[i].st = "folded"}
Executing == {i \in Ops : tasks[i].st \in {"running", "hung"}}
Outstanding == {i \in Ops : tasks[i].st \in {"waiting", "running", "hung"}}
Raised == {i \in Ops : tasks[i].outcome = "raised"}
Returned == {i \in Ops : tasks[i].outcome = "returned"}
SampledOps == {error_samples[k].op : k \in 1..Len(error_samples)}

\* C1 as stated: in every state the recorded successes plus failures equal the number
\* of operations that have reached a terminal outcome, and do not exceed the number
\* submitted.
C1_TotalsEqualTerminal ==
  /\ total_success + total_errors = Cardinality(Terminal)
  /\ total_success + total_errors <= workflow_num

\* C1 amended: in every state the recorded successes plus failures equal the number
\* of operations the driver has folded; a folded operation has a terminal outcome,
\* the operations with a terminal outcome are among those submitted, and when the
\* run is done the count equals the number of operations with a terminal outcome.
C1_TotalsEqualFolded ==
  /\ total_success + total_errors = Cardinality(FoldedOps)
  /\ FoldedOps \subseteq Terminal
  /\ Terminal \subseteq 1..workflow_num
  /\ pc = "done" => total_success + total_errors = Cardinality(Terminal)

\* an operation is folded and counted, another has ended and is not yet folded
C1_Witness ==
  /\ Cardinality(FoldedOps) >= 1
  /\ total_success + total_errors >= 1
  /\ \E i \in Ops : tasks[i].st = "done"

\* C2 as stated: while admitting, the submitted operations without a terminal
\* outcome number at most the configured concurrency.
C2_OutstandingBounded ==
  Admitting => Cardinality(Outstanding) <= concurrency

\* C2 amended: while admitting, the operations that hold a permit and execute the
\* remote call number at most the configured concurrency; the driver creates a task
\* in every iteration all the same, and the tasks beyond the bound wait for a permit.
C2_ExecutingBounded ==
  Admitting => Cardinality(Executing) <= concurrency

\* the gate is full while admitting and a submitted task waits for a permit
C2_Witness ==
  /\ Admitting
  /\ Cardinality(Executing) = concurrency
  /\ Waiting # {}

\* C3: the gather folds every operation that is pending at the deadline exactly
\* once, a returned one as a success and a failed one as a failure, so that the
\* totals grow by the number pending and end equal to the number submitted.
C3_DrainComplete ==
  [][pc = "drain" /\ pc' = "done" =>
       /\ total_success' - total_success =
            Cardinality({i \in pending_tasks : tasks[i].outcome = "returned"})
       /\ total_errors' - total_errors =
            Cardinality({i \in pending_tasks : tasks[i].outcome = "raised"})
       /\ (total_success' + total_errors') - (total_success + total_errors) =
            Cardinality(pending_tasks)
       /\ total_success' + total_errors' = workflow_num']_vars

\* the load run is done and the gather folded a failure and a success
C3_Witness ==
  /\ pc = "done"
  /\ script = "load"
  /\ total_errors >= 1
  /\ Len(error_samples) = 0
  /\ total_success >= 1
  /\ Len(interval_durations) = 0
  /\ last_report = 0

\* the verdict the failures of the run call for, each failure taken in the elapsed
\* minute in which its remote call failed
FailedInWindow == {i \in Raised : MinuteOf(tasks[i].failed_at) \in 4..6}
VerdictByFailureMinute ==
  IF Raised = {} THEN "PASSED"
  ELSE IF FailedInWindow # {} THEN "FAILURES AROUND TOKEN EXPIRY"
  ELSE "SOME FAILURES"

\* C4 as stated: the token-refresh run ends PASSED iff no operation failed, with the
\* warning when operations failed but none inside minutes 4 to 6, and with the
\* failure verdict when an operation failed inside minutes 4 to 6, whichever phase
\* folded the failure.
C4_VerdictByFailureMinute ==
  pc = "done" /\ script = "token" => verdict = VerdictByFailureMinute

\* C5 as stated: every run terminates, also when a remote call never returns.
C5_RunTerminates == <>(pc = "done")

\* C6 as stated: an operation whose remote call does not return in its time ends
\* as a failure; it is never left without a terminal outcome.
C6_HungCallFails ==
  \A i \in Ops :
    (tasks[i].outcome = "hung") ~>
      (tasks[i].st \in {"done", "folded"} /\ tasks[i].outcome # "returned")

\* C7: whatever the remote call raises, the task ends with a failure tuple and
\* never with an exception, the driver counts each such operation it has folded
\* as one failure and none as a success, and the driver stays in its loop,
\* the gather or the end: short of the end it can always take a further step,
\* unless a remote call hangs.
C7_FailureIsData ==
  /\ pc \in {"start", "loop", "sleep", "drain", "done"}
  /\ (pc # "done" /\ \A i \in Ops : tasks[i].st # "hung") => ENABLED Next
  /\ \A i \in Raised :
       tasks[i].st = "done" =>
         /\ tasks[i].result.kind = "tuple"
         /\ ~tasks[i].result.success
         /\ tasks[i].result.error.op = i
  /\ total_errors = Cardinality(Raised \cap FoldedOps)
  /\ total_success = Cardinality(Returned \cap FoldedOps)
  /\ pc = "done" => total_errors = Cardinality(Raised)

\* a failure was folded while admitting, a later operation was still submitted,
\* and the run is done
C7_Witness ==
  /\ pc = "done"
  /\ script = "load"
  /\ \E i \in SampledOps, j \in Returned : i < j

\* C8: the free permits and the operations executing the remote call always add
\* up to the configured concurrency, no permit is handed out that is not free,
\* and when the run is done every permit is free again.
C8_PermitsBalanced ==
  /\ semaphore >= 0
  /\ semaphore + Cardinality(Executing) = concurrency
  /\ Cardinality(Executing) <= concurrency
  /\ pc = "done" => semaphore = concurrency

\* the run is done with more operations than permits, some of which failed and
\* some of which returned
C8_Witness ==
  /\ pc = "done"
  /\ workflow_num > concurrency
  /\ Raised # {}
  /\ Returned # {}
  /\ semaphore = concurrency

\* C9 as stated: the load run never stores more than 10 reasons, and the stored
\* reasons are those of the first failures: a counted failure is missing from the
\* samples only when 10 reasons of failures that ended no later are stored.
C9_FirstFailuresSampled ==
  script = "load" =>
    /\ Len(error_samples) <= ErrorSampleCap
    /\ \A i \in Raised \cap FoldedOps :
         \/ i \in SampledOps
         \/ /\ Len(error_samples) = ErrorSampleCap
            /\ \A j \in SampledOps : tasks[j].failed_at <= tasks[i].failed_at

\* C10 as stated: every failure folded while fewer than 10 reasons are stored has
\* its reason stored, in either phase, so the number of stored reasons is the
\* smaller of the failure count and 10.
C10_EveryFailureSampled ==
  script = "load" => Len(error_samples) = Min(total_errors, ErrorSampleCap)

\* ---- the latency percentiles ----

\* v is the element at 0-based index k of the samples d put in ascending order:
\* v is a sample, at most k samples are smaller and more than k are no larger
AtSortedIndex(d, v, k) ==
  /\ \E i \in 1..Len(d) : d[i] = v
  /\ Cardinality({i \in 1..Len(d) : d[i] < v}) <= k
  /\ Cardinality({i \in 1..Len(d) : d[i] <= v}) > k

\* the samples 0.10, 0.20, 0.30, 0.40, 0.50 in some order
FiveSamples ==
  /\ Len(all_durations) = 5
  /\ {all_durations[i] : i \in 1..Len(all_durations)} = 1..5

\* C11: for every non-empty set of latencies the load test prints as P50, P95 and
\* P99 the element at index floor(len * p) of the samples in ascending order, an
\* index that lies in 0..len-1, and as Max the largest sample; for the samples 0.10
\* to 0.50 that is P50 = 0.30, P95 = 0.50 and Max = 0.50 in whichever order they
\* were recorded.
C11_PercentileAtSortedIndex ==
  (pc = "done" /\ script = "load" /\ all_durations # <<>>) =>
    LET n == Len(all_durations)
        printed == [q \in {50, 95, 99} |->
                     IF q = 50 THEN summary.p50
                     ELSE IF q = 95 THEN summary.p95 ELSE summary.p99]
    IN /\ summary.kind = "percentiles"
       /\ \A q \in {50, 95, 99} :
            \E k \in 0..(n - 1) :
              /\ 100 * k <= n * q
              /\ n * q < 100 * (k + 1)
              /\ AtSortedIndex(all_durations, printed[q], k)
       /\ \A i \in 1..n : all_durations[i] <= summary.max
       /\ \E i \in 1..n : all_durations[i] = summary.max
       /\ FiveSamples => summary.p50 = 3 /\ summary.p95 = 5 /\ summary.max = 5

\* the summary of the five samples recorded out of order is printed
C11_Witness ==
  /\ pc = "done"
  /\ script = "load"
  /\ all_durations = <<5, 1, 4, 2, 3>>
  /\ summary.p50 = 3
  /\ summary.p95 = 5

\* ---- the command line ----

\* C12 as stated: with a target rate of zero or below the load test aborts at
\* start-up, so that no operation is ever submitted (taken here with a concurrency
\* that is valid).
C12_BadRateNeverSubmits ==
  (script = "load" /\ workflows_per_second <= 0 /\ concurrency > 0) =>
    workflow_num = 0

\* C13 as stated: with a concurrency of zero or below the load test aborts at
\* start-up, so that no operation is ever submitted and none is ever left waiting
\* for a permit (taken here with a rate that is valid).
C13_BadConcurrencyNeverSubmits ==
  (script = "load" /\ concurrency <= 0 /\ workflows_per_second > 0) =>
    (workflow_num = 0 /\ Waiting = {})

\* ---- the pace of the submissions ----

\* C14: two consecutive submissions are never closer together than the delay
\* 1/rate: wake is set at every submission, and only then, to one delay after it,
\* and the next submission comes no earlier than wake, whatever completes in
\* between.
C14_SubmissionsSpaced ==
  [][/\ wake' # wake =>
          workflow_num' = workflow_num + 1 /\ wake' = now' + delay_between_workflows
     /\ (workflow_num' = workflow_num + 1 /\ workflow_num >= 1) =>
          (now' >= wake /\ delay_between_workflows > 0)]_vars

\* a third submission is made after results of earlier ones were folded
C14_Witness ==
  /\ workflow_num >= 3
  /\ FoldedOps # {}
  /\ pc = "sleep"
  /\ wake = now + delay_between_workflows

\* C15 as stated: the submissions keep to the intended schedule: the sleep begun
\* after the k-th submission ends at test_start + k * delay, however late earlier
\* iterations were.
C15_SlotsOnSchedule ==
  pc = "sleep" => wake = workflow_num * delay_between_workflows

\* C15 amended: every submission is followed by a sleep of one delay counted from
\* that submission, so the k-th submission comes no earlier than
\* test_start + (k - 1) * delay and later by all the time earlier iterations lost.
C15_SlotsFollowLastSubmission ==
  [][workflow_num' = workflow_num + 1 =>
       /\ pc' = "sleep"
       /\ wake' = now + delay_between_workflows
       /\ now >= workflow_num * delay_between_workflows]_vars

\* a submission was made later than the schedule has it, and the next slot is one
\* delay after it
C15_Witness ==
  /\ pc = "sleep"
  /\ workflow_num >= 2
  /\ wake > workflow_num * delay_between_workflows

\* C16: at 2 workflows per second, with iterations that take no time and sleeps
\* that return at most MaxJitter late, the tenth submission is made between 4.5 s
\* and 5.5 s after the first, and the sleep that follows it ends within 5.5 s too.
C16_TenSubmissionsInFiveSeconds ==
  (workflows_per_second = 2 /\ workflow_num = 10 /\ pc = "sleep") =>
    /\ 4500 <= now /\ now <= 5500
    /\ wake <= 5500

\* the tenth submission at 2 per second, made on time
C16_Witness ==
  /\ workflows_per_second = 2
  /\ workflow_num = 10
  /\ pc = "sleep"
  /\ now = 4500

\* ---- the length of failure reasons ----

\* the reasons held in results not yet folded, and the reasons stored
ReturnedReasons ==
  {tasks[i].result.error : i \in {j \in Ops : tasks[j].st = "done" /\ ~tasks[j].result.success}}
StoredReasons ==
  {error_samples[k] : k \in 1..Len(error_samples)} \cup
  UNION {{errors_by_minute[m][k] : k \in 1..Len(errors_by_minute[m])} :
           m \in DOMAIN errors_by_minute}

\* C17 as stated: every failure reason a runner returns, and every reason stored as
\* an error sample, is at most 200 characters long.
C17_ReasonsTruncated ==
  \A e \in ReturnedReasons \cup StoredReasons : e.len <= ErrorTextLimit

\* C17 amended: in the load test every failure reason returned or stored is the
\* error text cut to 200 characters; the token-refresh test returns and stores the
\* error text whole.
C17_LoadReasonsTruncated ==
  \A e \in ReturnedReasons \cup StoredReasons :
    e.len = (IF script = "load" THEN Min(MaxErrLen, ErrorTextLimit) ELSE MaxErrLen)

\* the load test holds a cut reason in a result and another in its samples
C17_Witness ==
  /\ script = "load"
  /\ \E e \in ReturnedReasons : e.len = ErrorTextLimit
  /\ \E e \in StoredReasons : e.len = ErrorTextLimit

\* ---- the summary of a run without results ----

\* C18 as stated: printing the final summary never raises, also when no latency
\* was recorded and when no operation ended at all; the run still ends with its
\* summary printed (taken here with a rate and a concurrency that are valid).
C18_SummaryNeverRaises ==
  (workflows_per_second > 0 /\ concurrency > 0) => pc # "crashed"

\* ---- the phases of the driver ----

\* 0 while admitting (and before the loop), 1 in the gather, 2 at the end
Phase(p) == IF p \in {"start", "loop", "sleep"} THEN 0 ELSE IF p = "drain" THEN 1 ELSE 2

\* C19: the driver goes from admitting to the gather to the end, one phase at a
\* time and never back; once the top of the loop has seen the deadline reached no
\* operation is submitted any more, and the number submitted stays what it is
\* through the gather and at the end.
C19_PhasesInOrder ==
  [][/\ Phase(pc') \in {Phase(pc), Phase(pc) + 1}
     /\ pc' \in {"start", "loop", "sleep", "drain", "done"}
     /\ (pc = "loop" /\ now >= test_duration_seconds) =>
          (pc' \in {"loop", "drain"} /\ workflow_num' = workflow_num)
     /\ Phase(pc) >= 1 => workflow_num' = workflow_num]_vars

\* the run is done after the deadline was seen with operations still pending
C19_Witness ==
  /\ pc = "done"
  /\ workflow_num >= 2
  /\ now >= test_duration_seconds
  /\ \E i \in Ops : tasks[i].st = "folded" /\ tasks[i].failed_at >= test_duration_seconds

\* ---- polling while admitting ----

\* C20: while admitting the driver waits for no operation: before the deadline the
\* top of the loop can always run its iteration, and every iteration folds each
\* operation that is done by then into the totals, also when operations submitted
\* earlier are still outstanding.
C20_DoneFoldedByNextIteration ==
  /\ [](pc = "loop" /\ now < test_duration_seconds /\ workflow_num < MaxWorkflows
          => ENABLED Iteration)
  /\ [][workflow_num' = workflow_num + 1 =>
          /\ \A i \in Ops : tasks[i].st = "done" => tasks'[i].st = "folded"
          /\ total_success' + total_errors' =
               total_success + total_errors +
               Cardinality({i \in Ops : tasks[i].st = "done"})]_vars

\* while admitting, an operation is folded and one submitted before it is not done
C20_Witness ==
  /\ Admitting
  /\ \E i \in Ops, j \in Ops :
       /\ i < j
       /\ tasks[i].st \in {"running", "hung"}
       /\ tasks[j].st = "folded"

\* ---- folding one result ----

DoneOps == {i \in Ops : tasks[i].st = "done"}
IterationStep == workflow_num' = workflow_num + 1
GatherStep == pc = "drain" /\ pc' \in {"done", "crashed"}

\* what a step adds to the run totals and to the interval window
AddedSuccess == total_success' - total_success
AddedErrors == total_errors' - total_errors
AddedSamples == Len(all_durations') - Len(all_durations)
AddedIntervalSuccess == interval_success' - interval_success
AddedIntervalErrors == interval_errors' - interval_errors
AddedIntervalSamples == Len(interval_durations') - Len(interval_durations)

\* the run totals after a step that folds the operations in S: one success or one
\* failure more for each, and the durations of the successes appended
TotalsFold(S) ==
  /\ AddedSuccess = Cardinality(S \cap Returned)
  /\ AddedErrors = Cardinality(S \cap Raised)
  /\ AddedSuccess + AddedErrors = Cardinality(S)
  /\ AddedSamples = AddedSuccess
  /\ SubSeq(all_durations', 1, Len(all_durations)) = all_durations
  /\ \A k \in (Len(all_durations) + 1)..Len(all_durations') :
       \E i \in S \cap Returned : all_durations'[k] = tasks[i].result.duration

\* C21 as stated: every step of the load test that folds operations, in the loop
\* and after the gather, adds to the interval window what it adds to the run
\* totals (a loop iteration that reports empties the window afterwards).
C21_FoldsIntoWindowAndTotals ==
  [][(script = "load" /\ (IterationStep \/ GatherStep)) =>
       /\ TotalsFold(IF IterationStep THEN DoneOps ELSE pending_tasks)
       /\ ~(IterationStep /\ ReportDue(now)) =>
            /\ AddedIntervalSuccess = AddedSuccess
            /\ AddedIntervalErrors = AddedErrors
            /\ AddedIntervalSamples = AddedSamples]_vars

\* C21 amended: a loop iteration of the load test folds each operation that is
\* done as one success or one failure, in the run totals and in the interval
\* window alike, and appends the duration of a success to the samples of both;
\* the fold after the gather does the same to the run totals only and leaves
\* the interval window as it was.
C21_WindowFoldedInLoopOnly ==
  [][(script = "load" /\ (IterationStep \/ GatherStep)) =>
       /\ TotalsFold(IF IterationStep THEN DoneOps ELSE pending_tasks)
       /\ (IterationStep /\ ~ReportDue(now)) =>
            /\ AddedIntervalSuccess = AddedSuccess
            /\ AddedIntervalErrors = AddedErrors
            /\ AddedIntervalSamples = AddedSamples
            /\ SubSeq(interval_durations', 1, Len(interval_durations)) = interval_durations
            /\ SubSeq(all_durations', Len(all_durations) + 1, Len(all_durations')) =
                 SubSeq(interval_durations', Len(interval_durations) + 1,
                        Len(interval_durations'))
       /\ GatherStep =>
            UNCHANGED <<interval_success, interval_errors, interval_durations>>]_vars

\* the load test is done: a loop iteration folded a success into the window, none
\* reported since, and the gather folded a failure
C21_Witness ==
  /\ script = "load"
  /\ pc = "done"
  /\ interval_success >= 1
  /\ Len(interval_durations) = interval_success
  /\ interval_errors = 0
  /\ total_errors >= 1

\* ---- the progress report ----

\* C22: a loop iteration of the load test that prints a progress report leaves the
\* interval counters at zero, the interval samples empty and last_report at the
\* current time; the run totals, the latency samples and the error samples are
\* what the fold of that iteration made them, the submitted count is one more for
\* the task the iteration created, and no outstanding task is touched.
C22_ReportResetsIntervalOnly ==
  [][(script = "load" /\ IterationStep /\ ReportDue(now)) =>
       /\ interval_success' = 0
       /\ interval_errors' = 0
       /\ interval_durations' = <<>>
       /\ last_report' = now
       /\ TotalsFold(DoneOps)
       /\ SubSeq(error_samples', 1, Len(error_samples)) = error_samples
       /\ Len(error_samples') =
            Min(Len(error_samples) + Cardinality(DoneOps \cap Raised), ErrorSampleCap)
       /\ \A i \in Outstanding : tasks'[i] = tasks[i]
       /\ {i \in Ops : tasks'[i].st \in {"waiting", "running", "hung"}} =
            Outstanding \cup {workflow_num'}]_vars

\* the load test has just reported: the window is empty, the totals and the
\* error samples are not, and an operation is outstanding
C22_Witness ==
  /\ script = "load"
  /\ pc = "sleep"
  /\ last_report = now
  /\ now > 0
  /\ interval_success = 0 /\ interval_errors = 0 /\ interval_durations = <<>>
  /\ total_success >= 1
  /\ error_samples # <<>>
  /\ Outstanding # {}

\* "if batch_num % (workflows_per_second * 30) == 0" (token only): the batch number
\* decides whether the progress line is printed
ProgressDue(batch_num) ==
  script = "token" /\ batch_num % ProgressBatches = 0

\* the time from one progress line to the next that the two scripts aim at: the
\* load test's report_interval, and the 30 seconds that workflows_per_second * 30
\* submissions take in the token test
ReportEvery ==
  IF script = "load" THEN report_interval
  ELSE ProgressBatches * delay_between_workflows

\* a loop iteration that prints its progress line
ProgressPrinted ==
  /\ IterationStep
  /\ IF script = "load" THEN last_report' # last_report
     ELSE ProgressDue(workflow_num')

RECURSIVE Bucketed(_)
Bucketed(M) ==
  IF M = {} THEN 0
  ELSE LET m == CHOOSE x \in M : TRUE
       IN Len(errors_by_minute[m]) + Bucketed(M \ {m})

\* C24 as stated: in the token test the buckets of errors_by_minute hold as many
\* errors as total_failed counts, in every state of the run and at its end.
C24_EveryFailureBucketed ==
  script = "token" => Bucketed(DOMAIN errors_by_minute) = total_errors

\* ---- OrderWorkflow of signals_queries_test.py ----
\* One workflow and its client.  A step of the workflow is what its coroutine
\* does from one await to the next; a signal handler has no await and is one
\* step.  An activity that fails is retried by the server and leaves no trace
\* in the workflow; the step of an activity is its completion.

NoOrderResult == [status |-> "none", items |-> 0, total |-> 0]

\* OrderWorkflow.__init__, and run entered up to its first await
NewOrderWorkflow ==
  [items |-> <<>>, status |-> "pending", total |-> 0, cancelled |-> FALSE,
   completed |-> FALSE, messages |-> <<>>,
   at |-> "wait_condition", result |-> NoOrderResult,
   signals |-> <<>>, query_results |-> <<>>]

OrderItems == [quantity : 1..MaxQuantity, price : 1..MaxPrice]

\* the workflow is open: the server delivers signals to it
Open(w) == w.at \in {"wait_condition", "process_payment", "ship_order", "send_notification"}

Sent(w, name) == Cardinality({k \in 1..Len(w.signals) : w.signals[k] = name})

\* sum(item.price * item.quantity for item in self.items)
RECURSIVE ItemsTotal(_)
ItemsTotal(items) ==
  IF items = <<>> THEN 0
  ELSE items[1].price * items[1].quantity + ItemsTotal(Tail(items))

\* a wait that only an item ends
WaitCondition_ItemsOnly(w) == Len(w.items) > 0

\* "lambda: len(self.items) > 0 or self.cancelled"
WaitCondition(w) == Len(w.items) > 0 \/ w.cancelled

\* "self.total = sum(...)" when the wait is over
CalculateTotal(w) == ItemsTotal(w.items)

\* a cancel_order that cancels whatever the status
cancel_order_Always(w) == [w EXCEPT !.cancelled = TRUE]

\* OrderWorkflow.cancel_order
cancel_order(w) == IF w.status = "pending" THEN [w EXCEPT !.cancelled = TRUE] ELSE w

\* OrderWorkflow.add_item, signalled by a client
AddItem(item) ==
  /\ Open(workflow)
  /\ Sent(workflow, "add_item") < items_per_order
  /\ workflow' = [workflow EXCEPT !.items = Append(@, item),
                                  !.signals = Append(@, "add_item")]
  /\ UNCHANGED <<driver_vars, bounded, suite, poller>>

\* OrderWorkflow.cancel_order, signalled by a client
CancelOrder ==
  /\ Open(workflow)
  /\ Sent(workflow, "cancel_order") = 0
  /\ workflow' = [cancel_order(workflow) EXCEPT !.signals = Append(@, "cancel_order")]
  /\ UNCHANGED <<driver_vars, bounded, suite, poller>>

\* OrderWorkflow.get_status, queried by a client; a closed workflow answers too
GetStatus ==
  /\ workflow.at # "none"
  /\ Len(workflow.query_results) < MaxQueries
  /\ workflow' = [workflow EXCEPT !.query_results = Append(@, workflow.status)]
  /\ UNCHANGED <<driver_vars, bounded, suite, poller>>

\* run from the return of wait_condition to its next await or its return
WaitOver ==
  /\ workflow.at = "wait_condition"
  /\ WaitCondition(workflow)
  /\ workflow' =
       IF workflow.cancelled
       THEN [workflow EXCEPT !.status = "cancelled", !.at = "returned",
                             !.result = [status |-> "cancelled", items |-> 0, total |-> 0]]
       ELSE [workflow EXCEPT !.total = CalculateTotal(workflow),
                             !.status = "processing", !.at = "process_payment"]
  /\ UNCHANGED <<driver_vars, bounded, suite, poller>>

\* the timeout of wait_condition passes with the condition false: the wait raises
\* asyncio.TimeoutError, run has no handler for it, and the workflow is closed
WaitTimesOut ==
  /\ workflow.at = "wait_condition"
  /\ ~WaitCondition(workflow)
  /\ workflow' = [workflow EXCEPT !.at = "failed"]
  /\ UNCHANGED <<driver_vars, bounded, suite, poller>>

\* process_payment completes: run goes on to ship_order
PaymentDone ==
  /\ workflow.at = "process_payment"
  /\ workflow' = [workflow EXCEPT !.messages = Append(@, "process_payment"),
                                  !.status = "paid", !.at = "ship_order"]
  /\ UNCHANGED <<driver_vars, bounded, suite, poller>>

\* ship_order completes: run goes on to send_notification
ShipDone ==
  /\ workflow.at = "ship_order"
  /\ workflow' = [workflow EXCEPT !.messages = Append(@, "ship_order"),
                                  !.status = "shipped", !.at = "send_notification"]
  /\ UNCHANGED <<driver_vars, bounded, suite, poller>>

\* send_notification completes: run returns its result
NotifyDone ==
  /\ workflow.at = "send_notification"
  /\ workflow' = [workflow EXCEPT !.messages = Append(@, "send_notification"),
                                  !.status = "completed", !.completed = TRUE,
                                  !.at = "returned",
                                  !.result = [status |-> "completed",
                                              items |-> Len(workflow.items),
                                              total |-> workflow.total]]
  /\ UNCHANGED <<driver_vars, bounded, suite, poller>>

OrderInit ==
  /\ DriverNotRun
  /\ workflow = NewOrderWorkflow
  /\ bounded = NotRun /\ suite = NotRun /\ poller = NotRun

OrderNext ==
  \/ \E item \in OrderItems : AddItem(item)
  \/ CancelOrder
  \/ GetStatus
  \/ WaitOver
  \/ WaitTimesOut
  \/ PaymentDone
  \/ ShipDone
  \/ NotifyDone

OrderSpec == OrderInit /\ [][OrderNext]_vars

\* ---- properties of OrderWorkflow ----
Ended(w) == w.at \in {"returned", "failed"}
RunStep == WaitOver \/ PaymentDone \/ ShipDone \/ NotifyDone

\* C25: a workflow that has received an add_item and no cancel_order does not
\* fail, can always take its next step until it has returned, and returns with
\* status "completed"; one that has received cancel_order (while pending, as it
\* has no items) and no add_item is cancelled, does not fail, can take its next
\* step until it has returned, and returns status "cancelled" with 0 items;
\* whatever the order of signals, queries and steps.
C25_OrdersCompleteCancelsCancel ==
  /\ (Sent(workflow, "add_item") >= 1 /\ Sent(workflow, "cancel_order") = 0) =>
       /\ workflow.at # "failed"
       /\ workflow.at # "returned" => ENABLED RunStep
       /\ workflow.at = "returned" =>
            /\ workflow.result.status = "completed"
            /\ workflow.status = "completed"
  /\ (Sent(workflow, "cancel_order") >= 1 /\ Sent(workflow, "add_item") = 0) =>
       /\ workflow.at # "failed"
       /\ workflow.at # "returned" => ENABLED RunStep
       /\ workflow.at = "returned" =>
            /\ workflow.result.status = "cancelled"
            /\ workflow.result.items = 0
            /\ workflow.status = "cancelled"

\* an order that got all its items and no cancel_order has returned, and its
\* client has queried the status on the way
C25_Witness ==
  /\ workflow.at = "returned"
  /\ workflow.result.status = "completed"
  /\ Sent(workflow, "add_item") = items_per_order
  /\ Sent(workflow, "cancel_order") = 0
  /\ workflow.query_results # <<>>

\* the moves of the status that run makes
StatusMoves ==
  {<<"pending", "processing">>, <<"processing", "paid">>, <<"paid", "shipped">>,
   <<"shipped", "completed">>, <<"pending", "cancelled">>}

\* s2 is s1 or comes after it along the moves
RECURSIVE Forward(_, _)
Forward(s1, s2) ==
  \/ s1 = s2
  \/ \E m \in StatusMoves : m[1] = s1 /\ Forward(m[2], s2)

CancelStep == Sent(workflow', "cancel_order") = Sent(workflow, "cancel_order") + 1

\* C26: the status changes only by one of the moves pending -> processing -> paid
\* -> shipped -> completed and pending -> cancelled, and the statuses a client is
\* answered follow each other along them; a cancel_order delivered when the
\* status is no longer pending changes no field of the workflow, and the
\* workflow then returns "completed" all the same; the workflow is never both
\* cancelled and completed.
C26_StatusMovesForward ==
  [][/\ workflow'.status # workflow.status =>
          <<workflow.status, workflow'.status>> \in StatusMoves
     /\ \A k \in 1..(Len(workflow'.query_results) - 1) :
          Forward(workflow'.query_results[k], workflow'.query_results[k + 1])
     /\ \A k \in 1..Len(workflow'.query_results) :
          Forward(workflow'.query_results[k], workflow'.status)
     /\ (CancelStep /\ workflow.status # "pending") =>
          workflow' = [workflow EXCEPT !.signals = Append(@, "cancel_order")]
     /\ ~(workflow'.cancelled /\ workflow'.completed)
     /\ workflow'.status = "cancelled" => (workflow'.cancelled /\ ~workflow'.completed)
     /\ workflow'.completed <=> workflow'.status = "completed"
     /\ (workflow'.at = "returned" /\ ~workflow'.cancelled) =>
          workflow'.result.status = "completed"]_vars

\* a cancel_order came after the status had left pending, and the order completed
C26_Witness ==
  /\ Sent(workflow, "cancel_order") = 1
  /\ ~workflow.cancelled
  /\ workflow.status = "completed"
  /\ workflow.result.status = "completed"

\* C27 as stated: the total a completed workflow returns is the sum of
\* price * quantity over the items its returned item count counts.
C27_ResultSelfConsistent ==
  (workflow.at = "returned" /\ workflow.result.status = "completed") =>
    workflow.result.total =
      ItemsTotal(SubSeq(workflow.items, 1, workflow.result.items))

\* ---- main of signals_queries_test.py: the bounded run ----
\* Every run_order_workflow and run_cancelled_workflow coroutine is wrapped in
\* bounded_run and gathered with return_exceptions=True; a coroutine returns its
\* dict or raises.

total_workflows == num_order_workflows + num_cancel_workflows
Runs == 1..total_workflows

\* "tasks.append(run_order_workflow(...))" and "tasks.append(run_cancelled_workflow(...))"
CreatedTasks ==
  [i \in Runs |-> [cancelled |-> i > num_order_workflows, st |-> "waiting"]]

BoundedInit ==
  /\ DriverNotRun
  /\ bounded = [at |-> "start", tasks |-> <<>>, semaphore |-> 0, completed |-> <<>>,
                results |-> <<>>, errors |-> <<>>]
  /\ workflow = NotRun /\ suite = NotRun /\ poller = NotRun

\* the tasks are created, the semaphore is constructed and the gather begins
CreateTasks ==
  /\ bounded.at = "start"
  /\ bounded' = [bounded EXCEPT !.at = "gather", !.tasks = CreatedTasks,
                                !.semaphore = BoundedConcurrency]
  /\ UNCHANGED <<driver_vars, workflow, suite, poller>>

\* "async with semaphore:" entered by the task that has waited longest
BoundedAcquire(i) ==
  /\ bounded.at = "gather"
  /\ bounded.tasks[i].st = "waiting"
  /\ bounded.semaphore > 0
  /\ \A j \in 1..(i - 1) : bounded.tasks[j].st # "waiting"
  /\ bounded' = [bounded EXCEPT !.tasks[i].st = "running", !.semaphore = @ - 1]
  /\ UNCHANGED <<driver_vars, workflow, suite, poller>>

\* a gather that gives up at the first exception: the tasks not yet ended are
\* left out of its result
GatherEnds_AtFirstException(ts) ==
  \/ \A i \in Runs : ts[i].st \in {"returned", "raised"}
  \/ \E i \in Runs : ts[i].st = "raised"

\* asyncio.gather(..., return_exceptions=True) returns when every task has ended
GatherEnds(ts) == \A i \in Runs : ts[i].st \in {"returned", "raised"}

\* "return await task" returns the dict of the workflow, or the coroutine raises;
\* the semaphore is released on either way out
BoundedEnds(i, how) ==
  /\ bounded.at = "gather"
  /\ bounded.tasks[i].st = "running"
  /\ bounded' = [bounded EXCEPT !.tasks[i].st = how, !.semaphore = @ + 1]
  /\ UNCHANGED <<driver_vars, workflow, suite, poller>>

\* the runs of S in the order of the list
RECURSIVE Listed(_, _)
Listed(i, S) ==
  IF i > total_workflows THEN <<>>
  ELSE (IF i \in S THEN <<i>> ELSE <<>>) \o Listed(i + 1, S)

\* the gather returns "completed" and the loop over it fills results and errors
Gathered ==
  /\ bounded.at = "gather"
  /\ GatherEnds(bounded.tasks)
  /\ LET ended == {i \in Runs : bounded.tasks[i].st \in {"returned", "raised"}}
         completed == Listed(1, ended)
     IN bounded' = [bounded EXCEPT
          !.at = "done",
          !.completed = completed,
          !.errors = Listed(1, {i \in ended : bounded.tasks[i].st = "raised"}),
          !.results = Listed(1, {i \in ended : bounded.tasks[i].st = "returned"})]
  /\ UNCHANGED <<driver_vars, workflow, suite, poller>>

BoundedNext ==
  \/ CreateTasks
  \/ \E i \in Runs : BoundedAcquire(i)
  \/ \E i \in Runs : BoundedEnds(i, "returned")
  \/ \E i \in Runs : BoundedEnds(i, "raised")
  \/ Gathered

BoundedSpec == BoundedInit /\ [][BoundedNext]_vars

\* ---- properties of the bounded run ----
Elements(s) == {s[k] : k \in 1..Len(s)}

\* C28: after the gather every workflow created is in exactly one of results and
\* errors, once: the two lists have no element twice and none in common, hold
\* the workflows that returned and the ones that raised, and their lengths add
\* up to the number created; and as long as the gather waits, a workflow that
\* raised leaves every other one waiting, running or ended as it was.
C28_EveryWorkflowAccounted ==
  /\ bounded.at = "done" =>
       /\ Len(bounded.results) + Len(bounded.errors) = total_workflows
       /\ Len(bounded.completed) = total_workflows
       /\ Cardinality(Elements(bounded.results)) = Len(bounded.results)
       /\ Cardinality(Elements(bounded.errors)) = Len(bounded.errors)
       /\ Elements(bounded.results) = {i \in Runs : bounded.tasks[i].st = "returned"}
       /\ Elements(bounded.errors) = {i \in Runs : bounded.tasks[i].st = "raised"}
       /\ Elements(bounded.results) \cup Elements(bounded.errors) = Runs
  /\ bounded.at = "gather" =>
       /\ \A i \in Runs : bounded.tasks[i].st \in {"waiting", "running", "returned", "raised"}
       /\ (\E i \in Runs : bounded.tasks[i].st \in {"waiting", "running"}) =>
            ENABLED (\E i \in Runs : BoundedAcquire(i) \/ BoundedEnds(i, "returned"))

\* the run is over: a workflow raised, and workflows that began after it returned
C28_Witness ==
  /\ bounded.at = "done"
  /\ bounded.tasks[1].st = "raised"
  /\ Len(bounded.errors) = 1
  /\ Len(bounded.results) = total_workflows - 1

\* ---- main of chasm_scheduler_test.py and of nexus_test.py: the scenario runner ----
\* A test is its place in all_tests.  A filter of the command line is taken as
\* the set of tests whose name contains it.

Suites == {"scheduler", "nexus"}
all_tests(program) == 1..(IF program = "scheduler" THEN SchedulerTests ELSE NexusTests)
Outcomes == {"true", "false", "raises"}
FilterLists(program) ==
  UNION {[1..n -> SUBSET all_tests(program)] : n \in 0..MaxFilters}

\* the tests of S in the order of all_tests
RECURSIVE InListOrder(_, _, _)
InListOrder(i, n, S) ==
  IF i > n THEN <<>>
  ELSE (IF i \in S THEN <<i>> ELSE <<>>) \o InListOrder(i + 1, n, S)

\* "[(name, fn) for name, fn in all_tests if any(f.lower() in name.lower() for f
\* in filters)]", and all_tests when there is no filter
Selected(program, filters) ==
  IF filters = <<>>
  THEN InListOrder(1, Cardinality(all_tests(program)), all_tests(program))
  ELSE InListOrder(1, Cardinality(all_tests(program)),
                   {x \in all_tests(program) :
                      \E k \in 1..Len(filters) : x \in filters[k]})

SuiteInit ==
  /\ DriverNotRun
  /\ \E program \in Suites : \E filters \in FilterLists(program) :
       suite = [at |-> "start", program |-> program, filters |-> filters,
                tests |-> <<>>, ran |-> <<>>, passed |-> 0, failed |-> 0,
                message |-> "none"]
  /\ workflow = NotRun /\ bounded = NotRun /\ poller = NotRun

\* the tests are selected and the counters set to zero
SelectTests ==
  /\ suite.at = "start"
  /\ suite' = [suite EXCEPT !.at = "loop",
                            !.tests = Selected(suite.program, suite.filters)]
  /\ UNCHANGED <<driver_vars, workflow, bounded, poller>>

\* a runner that lets the exception of a test pass uncounted
Tally_RaiseUncounted(s, outcome) ==
  IF outcome = "true" THEN [s EXCEPT !.passed = @ + 1]
  ELSE IF outcome = "false" THEN [s EXCEPT !.failed = @ + 1]
  ELSE s

\* "if ok: passed += 1 / else: failed += 1 / except Exception: failed += 1"
Tally(s, outcome) ==
  IF outcome = "true" THEN [s EXCEPT !.passed = @ + 1]
  ELSE [s EXCEPT !.failed = @ + 1]

\* one pass of "for name, test_fn in tests": the test returns True or False or
\* raises an Exception
RunTest(outcome) ==
  /\ suite.at = "loop"
  /\ Len(suite.ran) < Len(suite.tests)
  /\ LET test == suite.tests[Len(suite.ran) + 1]
     IN suite' = [Tally(suite, outcome) EXCEPT
                    !.ran = Append(@, [test |-> test, outcome |-> outcome])]
  /\ UNCHANGED <<driver_vars, workflow, bounded, poller>>

\* the loop is over: "Results: ..." and the line that follows it
PrintResults ==
  /\ suite.at = "loop"
  /\ Len(suite.ran) = Len(suite.tests)
  /\ suite' = [suite EXCEPT !.at = "done",
                            !.message = IF suite.failed = 0 THEN "all passed"
                                        ELSE "some failed"]
  /\ UNCHANGED <<driver_vars, workflow, bounded, poller>>

SuiteNext ==
  \/ SelectTests
  \/ \E outcome \in Outcomes : RunTest(outcome)
  \/ PrintResults

SuiteSpec == SuiteInit /\ [][SuiteNext]_vars

\* ---- properties of the scenario runner ----
NotPassed(s) == Cardinality({k \in 1..Len(s) : s[k].outcome # "true"})

\* C29: the tests run so far are the first of the selected tests, each once and
\* in the order of the list; passed counts the ones that returned true and failed
\* the ones that returned false or raised; until the last test has run the next
\* one can run, whatever the ones before did; and at the end passed + failed is
\* the number of selected tests and the all-passed line is printed exactly when
\* failed = 0.
C29_EveryTestRunOnce ==
  /\ suite.at # "start" =>
       /\ Len(suite.ran) <= Len(suite.tests)
       /\ \A k \in 1..Len(suite.ran) : suite.ran[k].test = suite.tests[k]
       /\ \A k \in 1..(Len(suite.tests) - 1) : suite.tests[k] < suite.tests[k + 1]
       /\ suite.failed = NotPassed(suite.ran)
       /\ suite.passed + suite.failed = Len(suite.ran)
  /\ (suite.at = "loop" /\ Len(suite.ran) < Len(suite.tests)) =>
       ENABLED (\E outcome \in Outcomes : RunTest(outcome))
  /\ suite.at = "done" =>
       /\ Len(suite.ran) = Len(suite.tests)
       /\ suite.passed + suite.failed = Len(suite.tests)
       /\ suite.message = "all passed" <=> suite.failed = 0
       /\ suite.message \in {"all passed", "some failed"}

\* the scheduler tests were all selected, the first raised, the second returned
\* false, the others returned true, and the run is over
C29_Witness ==
  /\ suite.at = "done"
  /\ suite.program = "scheduler"
  /\ Len(suite.tests) = SchedulerTests
  /\ suite.ran[1].outcome = "raises"
  /\ suite.ran[2].outcome = "false"
  /\ suite.passed = SchedulerTests - 2
  /\ suite.failed = 2
  /\ suite.message = "some failed"

\* ---- wait_for_schedule_action of chasm_scheduler_test.py ----
\* The clock counts sleeps of 2 seconds.  handle.describe() is a call to the
\* server: it returns the description of the schedule or raises, and takes up
\* to MaxLate ticks; the schedule runs its actions in the meantime.

PollerEnded(p) == p.at \in {"returned", "TimeoutError", "raised"}

PollerInit ==
  /\ DriverNotRun
  /\ \E min_actions \in 1..MaxMinActions : \E timeout \in 1..MaxTimeout :
     \E num_actions \in 0..MaxActions :
       poller = [at |-> "start", min_actions |-> min_actions, timeout |-> timeout,
                 time |-> 0, deadline |-> 0, poll_count |-> 0, count |-> 0,
                 returned |-> 0, num_actions |-> num_actions]
  /\ workflow = NotRun /\ bounded = NotRun /\ suite = NotRun

\* "while time.time() < deadline": the next await is the describe of the loop or
\* the one after it
WhileTest(time, deadline) ==
  IF time < deadline THEN "describe" ELSE "final_describe"

\* the call: the deadline is set and the loop is entered
Call ==
  /\ poller.at = "start"
  /\ poller' = [poller EXCEPT !.deadline = poller.time + poller.timeout,
                              !.at = WhileTest(poller.time,
                                               poller.time + poller.timeout)]
  /\ UNCHANGED <<driver_vars, workflow, bounded, suite>>

\* a poll that returns whatever count it sees
Enough_Any(count, min_actions) == TRUE

\* "if count >= min_actions"
Enough(count, min_actions) == count >= min_actions

\* describe returns inside the loop: the count is read and either returned or
\* followed by asyncio.sleep(2)
DescribeReturns(took) ==
  /\ poller.at = "describe"
  /\ LET count == poller.num_actions
     IN poller' = [poller EXCEPT
          !.time = @ + took,
          !.count = count,
          !.poll_count = @ + 1,
          !.returned = IF Enough(count, poller.min_actions) THEN count ELSE @,
          !.at = IF Enough(count, poller.min_actions) THEN "returned" ELSE "sleep"]
  /\ UNCHANGED <<driver_vars, workflow, bounded, suite>>

\* describe raises, in the loop or after it: the exception leaves the function
DescribeRaises ==
  /\ poller.at \in {"describe", "final_describe"}
  /\ poller' = [poller EXCEPT !.at = "raised"]
  /\ UNCHANGED <<driver_vars, workflow, bounded, suite>>

\* asyncio.sleep(2) returns, on time or late, and the loop tests the deadline
SleepReturns(late) ==
  /\ poller.at = "sleep"
  /\ poller' = [poller EXCEPT
       !.time = @ + 1 + late,
       !.at = WhileTest(poller.time + 1 + late, poller.deadline)]
  /\ UNCHANGED <<driver_vars, workflow, bounded, suite>>

\* the describe after the loop returns: "raise TimeoutError(...)"
FinalDescribeReturns(took) ==
  /\ poller.at = "final_describe"
  /\ poller' = [poller EXCEPT !.time = @ + took, !.at = "TimeoutError"]
  /\ UNCHANGED <<driver_vars, workflow, bounded, suite>>

\* the schedule runs an action
ScheduleFires ==
  /\ poller.at \notin {"none", "start"}
  /\ ~PollerEnded(poller)
  /\ poller.num_actions < MaxActions
  /\ poller' = [poller EXCEPT !.num_actions = @ + 1]
  /\ UNCHANGED <<driver_vars, workflow, bounded, suite>>

PollerNext ==
  \/ Call
  \/ \E took \in 0..MaxLate : DescribeReturns(took)
  \/ DescribeRaises
  \/ \E late \in 0..MaxLate : SleepReturns(late)
  \/ \E took \in 0..MaxLate : FinalDescribeReturns(took)
  \/ ScheduleFires

PollerSpec == PollerInit /\ [][PollerNext]_vars

\* ---- properties of wait_for_schedule_action ----
PollerStep ==
  \/ Call
  \/ \E took \in 0..MaxLate : DescribeReturns(took)
  \/ \E late \in 0..MaxLate : SleepReturns(late)
  \/ \E took \in 0..MaxLate : FinalDescribeReturns(took)

\* C30 as stated: the call ends in one of two ways, with a count that a poll has
\* seen and that is at least min_actions, or with TimeoutError once the deadline
\* has passed; until then it can take its next step, and it polls no more often
\* than the timeout has room for sleeps.
C30_ReturnsOrTimesOut ==
  /\ poller.at \in {"start", "describe", "sleep", "final_describe", "returned",
                    "TimeoutError"}
  /\ poller.at = "returned" =>
       /\ poller.returned >= poller.min_actions
       /\ poller.returned = poller.count
       /\ poller.poll_count >= 1
  /\ poller.at = "TimeoutError" =>
       /\ poller.time >= poller.deadline
       /\ poller.poll_count >= 1 => poller.count < poller.min_actions
  /\ ~PollerEnded(poller) => ENABLED PollerStep
  /\ poller.poll_count <= poller.timeout

\* C30 amended: the call ends in one of three ways: it returns the count of the
\* poll it has just made, which is at least min_actions; or it raises
\* TimeoutError, the deadline having passed and no poll of the loop having seen
\* min_actions; or it raises what handle.describe() raised.  Until then it can
\* take its next step, it makes at most one poll for every sleep that fits into
\* the timeout, and the clock passes the deadline by no more than the lateness
\* of the last poll, of the sleep after it and of the describe after the loop.
C30_ReturnsTimesOutOrDescribeRaises ==
  /\ poller.at \in {"start", "describe", "sleep", "final_describe", "returned",
                    "TimeoutError", "raised"}
  /\ poller.at = "returned" =>
       /\ poller.returned >= poller.min_actions
       /\ poller.returned = poller.count
       /\ poller.poll_count >= 1
  /\ poller.at = "TimeoutError" =>
       /\ poller.time >= poller.deadline
       /\ poller.poll_count >= 1 => poller.count < poller.min_actions
  /\ poller.at = "raised" => poller.returned = 0
  /\ ~PollerEnded(poller) => ENABLED PollerStep
  /\ poller.poll_count <= poller.timeout
  /\ poller.at # "start" => poller.time <= poller.deadline + 3 * MaxLate

\* the call polled twice without seeing enough actions, the schedule ran one when
\* the loop was over, and the call raised TimeoutError
C30_Witness ==
  /\ poller.at = "TimeoutError"
  /\ poller.poll_count >= 2
  /\ poller.count < poller.min_actions
  /\ poller.num_actions >= poller.min_actions

====
